---- MODULE Spec2Model ----
(***************************************************************************)
(* GitHub-activity pipeline of the portfolio site.                         *)
(*                                                                         *)
(*   Activity Proxy   the server route GET /api/github-activity            *)
(*   Activity Widget  the React component GitHubActivity and its           *)
(*                    localStorage cache                                   *)
(*                                                                         *)
(* Strings that the code compares (ISO dates) are sequences of character   *)
(* codes, so that the code's string comparison and the calendar order are  *)
(* two different things.                                                   *)
(***************************************************************************)
EXTENDS Integers, Sequences, FiniteSets, TLC

VARIABLES
    ppc,        \* Proxy: position of the GET handler
    pTimer,     \* Proxy: the setTimeout of line 23 is pending
    pAborted,   \* Proxy: controller.signal.aborted
    pElapsed,   \* Proxy: ms since the handler started
    upStatus,   \* Proxy: status of the upstream response (0: none yet)
    upBody,     \* Proxy: what response.json() produced
    today,      \* Proxy: day number of the server clock when line 46 ran
    serverTz,   \* Proxy: sign of the server's UTC offset
    presp,      \* Proxy: the Response the handler returned
    cache,      \* browser: the localStorage item "github-activity-cache"
    now,        \* browser: Date.now()
    ticks,      \* browser: how many times the clock has advanced
    wlife,      \* Widget w: "new", "mounted" or "unmounted" (isMounted is "mounted")
    wpc,        \* Widget w: position of fetchData
    wTimer,     \* Widget w: the setTimeout of line 79 is pending
    wAborted,   \* Widget w: "no", or who called controller.abort(): "timer", "cleanup"
    wStart,     \* Widget w: Date.now() when the effect ran
    wStatus,    \* Widget w: HTTP status of the response being read (0: none)
    status,     \* Widget w: state "loading" | "success" | "error"
    data,       \* Widget w: state data
    error,      \* Widget w: state error
    seen,       \* Widget w: what getItem returned when the effect ran
    fetched,    \* Widget w: fetch(API_URL) was called
    dataSource, \* Widget w: where data came from: "none", "cache", "fetch"
    wResult,    \* Widget w: result of line 112, what the 2xx body parsed to
    wStored,    \* Widget w: the cacheData that its setItem stored
    lastWriter, \* browser: the Widget whose setItem ran last (0: none)
    together    \* browser: a Widget has mounted while another's fetch was pending

pvars == <<ppc, pTimer, pAborted, pElapsed, upStatus, upBody, today, serverTz, presp>>
wvars == <<cache, now, ticks, wlife, wpc, wTimer, wAborted, wStart, wStatus,
           status, data, error, seen, fetched, dataSource,
           wResult, wStored, lastWriter, together>>
vars == <<pvars, wvars>>

-----------------------------------------------------------------------------
(* Bounds of the model *)

\* longest upstream contributions array enumerated entry by entry
MaxSmallLen == 2
\* largest contribution count of one day
MaxCount == 2
\* the long upstream arrays have WindowSize - 1 .. WindowSize + MaxOver entries
MaxOver == 2
\* most keys of the upstream total mapping
MaxTotalKeys == 2
\* how many times the browser clock advances
MaxTicks == 2

-----------------------------------------------------------------------------
(* Program constants *)

\* the same constant in the Proxy and in the Widget
FETCH_TIMEOUT == 10000
WindowSize == 365
CACHE_TTL == 1000 * 60 * 60
CACHE_VERSION == 2

-----------------------------------------------------------------------------
(* Calendar and ISO date strings: Date, toISOString, "YYYY-MM-DD" *)

IsLeap(y) == (y % 4 = 0 /\ y % 100 # 0) \/ y % 400 = 0

DaysInMonth(y, m) ==
    IF m = 2 THEN (IF IsLeap(y) THEN 29 ELSE 28)
    ELSE IF m \in {4, 6, 9, 11} THEN 30 ELSE 31

RECURSIVE CivilFrom(_, _, _)
CivilFrom(y, m, off) ==
    IF off < DaysInMonth(y, m) THEN [y |-> y, m |-> m, d |-> off + 1]
    ELSE IF m = 12 THEN CivilFrom(y + 1, 1, off - DaysInMonth(y, m))
    ELSE CivilFrom(y, m + 1, off - DaysInMonth(y, m))

\* day number 0 is 2023-01-01 (UTC)
Civil(day) == CivilFrom(2023, 1, day)

RECURSIVE Digits(_, _)
Digits(n, w) == IF w = 0 THEN <<>> ELSE Append(Digits(n \div 10, w - 1), 48 + (n % 10))

\* new Date(..).toISOString().split('T')[0]: zero-padded, '-' is code 45
IsoDate(day) ==
    LET c == Civil(day)
    IN  Digits(c.y, 4) \o <<45>> \o Digits(c.m, 2) \o <<45>> \o Digits(c.d, 2)

RECURSIVE StrCmpFrom(_, _, _)
StrCmpFrom(a, b, i) ==
    IF i > Len(a) THEN (IF i > Len(b) THEN 0 ELSE -1)
    ELSE IF i > Len(b) THEN 1
    ELSE IF a[i] < b[i] THEN -1
    ELSE IF a[i] > b[i] THEN 1
    ELSE StrCmpFrom(a, b, i + 1)

\* a.localeCompare(b) on strings of digits and hyphens
LocaleCompare(a, b) == StrCmpFrom(a, b, 1)

\* a <= b on strings: code unit by code unit
StrLE(a, b) == StrCmpFrom(a, b, 1) <= 0

RECURSIVE ParseInt(_, _, _)
ParseInt(s, from, to) ==
    IF to < from THEN 0 ELSE 10 * ParseInt(s, from, to - 1) + (s[to] - 48)

\* new Date("YYYY-MM-DD").getFullYear(): the string is parsed as UTC midnight
\* and the year is read in the server's local time
GetFullYear(s, tz) ==
    LET y == ParseInt(s, 1, 4)
        m == ParseInt(s, 6, 7)
        d == ParseInt(s, 9, 10)
    IN  IF tz < 0 /\ m = 1 /\ d = 1 THEN y - 1 ELSE y

-----------------------------------------------------------------------------
(* JSON values of the upstream body *)

\* t is the type; n a number's value; c a string's characters; a an array's
\* elements; m an object's [k, v] members
JAbsent == [t |-> "absent", n |-> 0, c |-> <<>>, a |-> <<>>, m |-> <<>>]
JNull == [t |-> "null", n |-> 0, c |-> <<>>, a |-> <<>>, m |-> <<>>]
JNum(n) == [t |-> "num", n |-> n, c |-> <<>>, a |-> <<>>, m |-> <<>>]
JStr(c) == [t |-> "str", n |-> 0, c |-> c, a |-> <<>>, m |-> <<>>]
JArr(a) == [t |-> "arr", n |-> 0, c |-> <<>>, a |-> a, m |-> <<>>]
JObj(m) == [t |-> "obj", n |-> 0, c |-> <<>>, a |-> <<>>, m |-> m]

\* !v is false
Truthy(v) ==
    CASE v.t = "absent" -> FALSE
      [] v.t = "null" -> FALSE
      [] v.t = "num" -> v.n # 0
      [] v.t = "str" -> v.c # <<>>
      [] OTHER -> TRUE

IsArray(v) == v.t = "arr"

-----------------------------------------------------------------------------
(* Array helpers: sort (stable), reduce *)

RECURSIVE CountLess(_, _, _, _)
\* how many elements of the sorted b[lo..hi] (and before lo) compare below x
CountLess(b, x, lo, hi) ==
    IF lo > hi THEN lo - 1
    ELSE LET mid == (lo + hi) \div 2
         IN  IF LocaleCompare(b[mid].date, x.date) < 0
             THEN CountLess(b, x, mid + 1, hi)
             ELSE CountLess(b, x, lo, mid - 1)

RECURSIVE CountAtMost(_, _, _, _)
CountAtMost(pos, p, lo, hi) ==
    IF lo > hi THEN lo - 1
    ELSE LET mid == (lo + hi) \div 2
         IN  IF pos[mid] <= p
             THEN CountAtMost(pos, p, mid + 1, hi)
             ELSE CountAtMost(pos, p, lo, mid - 1)

\* stable merge of two sorted runs, a's elements before equal elements of b
\* (SubSeq turns the function into a sequence value, computed once)
Merge(a, b) ==
    LET la == Len(a)
        lb == Len(b)
        posA == SubSeq([i \in 1..la |-> i + CountLess(b, a[i], 1, lb)], 1, la)
    IN  SubSeq([p \in 1..(la + lb) |->
                   LET k == CountAtMost(posA, p, 1, la)
                   IN  IF k > 0 /\ posA[k] = p THEN a[k] ELSE b[p - k]],
               1, la + lb)

RECURSIVE SortByDate(_)
\* .sort((a, b) => a.date.localeCompare(b.date)): Array.prototype.sort is stable
SortByDate(s) ==
    IF Len(s) <= 1 THEN s
    ELSE LET h == Len(s) \div 2
         IN  Merge(SortByDate(SubSeq(s, 1, h)), SortByDate(SubSeq(s, h + 1, Len(s))))

RECURSIVE SumCounts(_, _, _)
\* reduce((sum, day) => sum + day.count, 0) over s[lo..hi]
SumCounts(s, lo, hi) ==
    IF lo > hi THEN 0
    ELSE IF lo = hi THEN s[lo].count
    ELSE LET mid == (lo + hi) \div 2
         IN  SumCounts(s, lo, mid) + SumCounts(s, mid + 1, hi)

-----------------------------------------------------------------------------
(* The steps of the GET handler, part_002 lines 45-64 *)

\* the filter with < in place of <=
FilterFuture_Strict(cs, todayStr) ==
    SelectSeq(cs, LAMBDA c : StrCmpFrom(c.date, todayStr, 1) < 0)

\* .filter((c) => c.date <= today)
FilterFuture(cs, todayStr) == SelectSeq(cs, LAMBDA c : StrLE(c.date, todayStr))

\* slice(0, 365) in place of slice(-365)
LastYearData_First(sorted) ==
    IF Len(sorted) <= WindowSize THEN sorted ELSE SubSeq(sorted, 1, WindowSize)

\* sortedContributions.slice(-365)
LastYearData(sorted) ==
    IF Len(sorted) <= WindowSize THEN sorted
    ELSE SubSeq(sorted, Len(sorted) - WindowSize + 1, Len(sorted))

YearRange(lastYearData, tz) ==
    IF Len(lastYearData) > 0
    THEN LET startYear == GetFullYear(lastYearData[1].date, tz)
             endYear == GetFullYear(lastYearData[Len(lastYearData)].date, tz)
         IN  IF startYear = endYear THEN ToString(startYear)
             ELSE ToString(startYear) \o " - " \o ToString(endYear)
    ELSE ""

LastYearTotal(lastYearData) == SumCounts(lastYearData, 1, Len(lastYearData))

\* Object.values(v): the member values of an object, the elements of an array,
\* the characters of a string, nothing for a number
ObjectValues(v) ==
    CASE v.t = "obj" -> [i \in 1..Len(v.m) |-> JNum(v.m[i].v)]
      [] v.t = "arr" -> v.a
      [] v.t = "str" -> [i \in 1..Len(v.c) |-> JStr(<<v.c[i]>>)]
      [] OTHER -> <<>>

\* String(v) as a sequence of text segments: a number's digits are one segment
JsString(v) == IF v.t = "num" THEN <<ToString(v.n)>> ELSE v.c

\* JavaScript a + b on numbers and strings
JsPlus(x, y) ==
    IF x.t = "num" /\ y.t = "num" THEN JNum(x.n + y.n)
    ELSE JStr(JsString(x) \o JsString(y))

RECURSIVE Reduce(_, _, _)
Reduce(vals, i, acc) ==
    IF i > Len(vals) THEN acc ELSE Reduce(vals, i + 1, JsPlus(acc, vals[i]))

\* Object.values(data.total).reduce((sum, count) => sum + count, 0)
AllTimeTotal(total) == Reduce(ObjectValues(total), 1, JNum(0))

\* !data.contributions || !Array.isArray(data.contributions) || !data.total
InvalidStructure(json) ==
    \/ ~Truthy(json.contributions)
    \/ ~IsArray(json.contributions)
    \/ ~Truthy(json.total)

-----------------------------------------------------------------------------
(* Responses *)

NoResponse == [status |-> 0, body |-> [none |-> TRUE], cacheControl |-> ""]

ErrorResponse(code, message) ==
    [status |-> code, body |-> [error |-> message], cacheControl |-> ""]

ThrownError(name, message) == [isError |-> TRUE, name |-> name, message |-> message]

\* the catch block testing for the wrong error name
CatchResponse_TimeoutError(err) ==
    IF err.isError /\ err.name = "TimeoutError"
    THEN ErrorResponse(504, "Request timed out")
    ELSE ErrorResponse(500, IF err.isError THEN err.message ELSE "Unknown error")

\* the catch block, lines 81-96
CatchResponse(err) ==
    IF err.isError /\ err.name = "AbortError"
    THEN ErrorResponse(504, "Request timed out")
    ELSE ErrorResponse(500, IF err.isError THEN err.message ELSE "Unknown error")

\* response.ok
Ok(code) == code >= 200 /\ code <= 299

\* new Response(body, { status }) throws for a status that allows no body
NullBodyStatus(code) == code \in {101, 103, 204, 205, 304}

\* lines 29-34, inside the try
NotOkResponse(code) ==
    IF NullBodyStatus(code)
    THEN CatchResponse(ThrownError("TypeError", "Response constructor: Invalid response status code " \o ToString(code)))
    ELSE ErrorResponse(code, "Failed to fetch GitHub data: " \o ToString(code))

\* lastYearTotal summed over the unfiltered upstream array
Payload_TotalOfAll(json, todayDay, tz) ==
    LET sortedContributions == SortByDate(FilterFuture(json.contributions.a, IsoDate(todayDay)))
        lastYearData == LastYearData(sortedContributions)
    IN  [contributions |-> lastYearData,
         lastYearTotal |-> LastYearTotal(json.contributions.a),
         allTimeTotal |-> AllTimeTotal(json.total),
         yearRange |-> YearRange(lastYearData, tz)]

\* allTimeTotal taken from the window instead of the total mapping
Payload_AllTimeOfWindow(json, todayDay, tz) ==
    LET sortedContributions == SortByDate(FilterFuture(json.contributions.a, IsoDate(todayDay)))
        lastYearData == LastYearData(sortedContributions)
    IN  [contributions |-> lastYearData,
         lastYearTotal |-> LastYearTotal(lastYearData),
         allTimeTotal |-> JNum(LastYearTotal(lastYearData)),
         yearRange |-> YearRange(lastYearData, tz)]

\* lines 45-80
Payload(json, todayDay, tz) ==
    LET sortedContributions == SortByDate(FilterFuture(json.contributions.a, IsoDate(todayDay)))
        lastYearData == LastYearData(sortedContributions)
    IN  [contributions |-> lastYearData,
         lastYearTotal |-> LastYearTotal(lastYearData),
         allTimeTotal |-> AllTimeTotal(json.total),
         yearRange |-> YearRange(lastYearData, tz)]

\* lines 36-80: what the handler returns once response.json() settled with b
BodyResponse(b, todayDay, tz) ==
    CASE b.kind = "unparsable" ->
           CatchResponse(ThrownError("SyntaxError", "Unexpected token < in JSON at position 0"))
      [] b.kind = "null" ->
           CatchResponse(ThrownError("TypeError", "Cannot read properties of null (reading 'contributions')"))
      [] OTHER ->
           IF InvalidStructure(b)
           THEN ErrorResponse(502, "Invalid data structure from GitHub API")
           ELSE [status |-> 200,
                 body |-> Payload(b, todayDay, tz),
                 cacheControl |-> "public, max-age=3600, s-maxage=3600"]

-----------------------------------------------------------------------------
(* What the upstream service may send *)

UpstreamStatuses == {200, 304, 404, 503}

Level(count) == IF count > 4 THEN 4 ELSE count

IsoOf == [day \in 0..(WindowSize + MaxOver + 5) |-> IsoDate(day)]

Entry(day, count) == [date |-> IsoOf[day], count |-> count, level |-> Level(count)]

\* 2023-12-31, 2024-01-01, 2024-01-02
SmallDays == {364, 365, 366}

\* the server clock: 2024-01-01 or 2024-01-03
TodayChoices == {365, 367}

TimeZones == {-1, 0, 1}

SmallEntries == {Entry(d, c) : d \in SmallDays, c \in 0..MaxCount}

SmallContribs == UNION {[1..k -> SmallEntries] : k \in 0..MaxSmallLen}

\* n consecutive days from 2023-01-01, oldest first or newest first
LongRun(n, ascending) ==
    [i \in 1..n |->
        LET day == IF ascending THEN i - 1 ELSE n - i
        IN  Entry(day, day % (MaxCount + 1))]

LongContribs ==
    {LongRun(n, asc) : n \in (WindowSize - 1)..(WindowSize + MaxOver), asc \in BOOLEAN}

TotalMaps ==
    UNION {{[i \in 1..k |-> [k |-> 2022 + i, v |-> f[i]]] : f \in [1..k -> {0, 50, 100}]}
             : k \in 0..MaxTotalKeys}

SampleTotal == JObj(<<[k |-> 2023, v |-> 100], [k |-> 2024, v |-> 50]>>)

\* contributions that is no array: absent, null, a number, an object
NonArrays == {JAbsent, JNull, JNum(7), JObj(<<>>)}

\* total that is no mapping: absent, null, numbers, strings
NonMappings == {JAbsent, JNull, JNum(0), JNum(5), JStr(<<>>), JStr(<<"a", "b">>)}

ObjectBody(contributions, total) ==
    [kind |-> "object", contributions |-> contributions, total |-> total]

Bodies ==
    {[kind |-> k, contributions |-> JAbsent, total |-> JAbsent] : k \in {"unparsable", "null"}}
    \cup {ObjectBody(c, t) : c \in {JArr(a) : a \in SmallContribs} \cup NonArrays,
                             t \in {SampleTotal} \cup NonMappings}
    \cup {ObjectBody(c, JObj(m)) : c \in {JArr(<<>>), JArr(<<Entry(365, 1)>>), JAbsent},
                                   m \in TotalMaps}
    \cup {ObjectBody(JArr(a), SampleTotal) : a \in LongContribs}

NoBody == [kind |-> "none", contributions |-> JAbsent, total |-> JAbsent]

-----------------------------------------------------------------------------
(* The Activity Proxy: GET, part_002 lines 21-97 *)

PInit ==
    /\ ppc = "idle"
    /\ pTimer = FALSE
    /\ pAborted = FALSE
    /\ pElapsed = 0
    /\ upStatus = 0
    /\ upBody = NoBody
    /\ today = 0
    /\ serverTz = 0
    /\ presp = NoResponse

\* lines 22-26: the controller, the timer, the outbound fetch
ProxyGET ==
    /\ ppc = "idle"
    /\ ppc' = "fetching"
    /\ pTimer' = TRUE
    /\ UNCHANGED <<pAborted, pElapsed, upStatus, upBody, today, serverTz, presp>>
    /\ UNCHANGED wvars

\* FETCH_TIMEOUT ms pass while the fetch is pending
ProxyTick ==
    /\ ppc = "fetching"
    /\ pElapsed < FETCH_TIMEOUT
    /\ pElapsed' = FETCH_TIMEOUT
    /\ UNCHANGED <<ppc, pTimer, pAborted, upStatus, upBody, today, serverTz, presp>>
    /\ UNCHANGED wvars

\* line 23: the timer's callback, controller.abort()
ProxyTimerFire ==
    /\ pTimer
    /\ pElapsed >= FETCH_TIMEOUT
    /\ pTimer' = FALSE
    /\ pAborted' = TRUE
    /\ UNCHANGED <<ppc, pElapsed, upStatus, upBody, today, serverTz, presp>>
    /\ UNCHANGED wvars

\* lines 26-34: the fetch resolves with the upstream's status line
ProxyFetchResolve(code) ==
    /\ ppc = "fetching"
    /\ ~pAborted
    /\ pTimer' = FALSE
    /\ upStatus' = code
    /\ IF Ok(code)
       THEN /\ ppc' = "reading"
            /\ presp' = presp
       ELSE /\ ppc' = "done"
            /\ presp' = NotOkResponse(code)
    /\ UNCHANGED <<pAborted, pElapsed, upBody, today, serverTz>>
    /\ UNCHANGED wvars

\* lines 26, 81-96: the fetch rejects, aborted by the timer or failed in transport
ProxyFetchReject ==
    /\ ppc = "fetching"
    /\ ppc' = "done"
    /\ pTimer' = FALSE
    /\ presp' = CatchResponse(IF pAborted
                              THEN ThrownError("AbortError", "This operation was aborted")
                              ELSE ThrownError("TypeError", "fetch failed"))
    /\ UNCHANGED <<pAborted, pElapsed, upStatus, upBody, today, serverTz>>
    /\ UNCHANGED wvars

\* lines 36-80: response.json() settles and the handler runs to its return
ProxyJsonSettle(b, todayDay, tz) ==
    /\ ppc = "reading"
    /\ ppc' = "done"
    /\ upBody' = b
    /\ today' = todayDay
    /\ serverTz' = tz
    /\ presp' = BodyResponse(b, todayDay, tz)
    /\ UNCHANGED <<pTimer, pAborted, pElapsed, upStatus>>
    /\ UNCHANGED wvars

-----------------------------------------------------------------------------
(* The Activity Widget: GitHubActivity.tsx lines 71-150 *)

\* two instances of the component on the page; an instance is one mount
Widgets == {1, 2}

\* what the Proxy may answer: payloads are opaque to the Widget
Payloads == {"P1", "P2"}

\* useState(null), and a JSON body or cached data that is null
NullData == "null"

\* line 112 has not run: result is not assigned
NoResult == "none"

WidgetStatuses == {200, 404, 504}

\* the clock at the start
T0 == 2 * CACHE_TTL

ClockSteps == {FETCH_TIMEOUT, CACHE_TTL - FETCH_TIMEOUT}

NoItem == [kind |-> "absent", data |-> NullData, timestamp |-> 0, version |-> 0]

\* getItem's results: no item, "", text that is no JSON, "null", a record
\* without a version (written by the previous release), a CachedData record
CacheItems ==
    {[kind |-> k, data |-> NullData, timestamp |-> 0, version |-> 0]
        : k \in {"absent", "empty", "unparsable", "null"}}
    \cup {[kind |-> "legacy", data |-> "P1", timestamp |-> T0 - 1, version |-> 0]}
    \cup {[kind |-> "record", data |-> "P1", timestamp |-> t, version |-> CACHE_VERSION]
            : t \in {T0 - CACHE_TTL - 1, T0 - CACHE_TTL, T0 - CACHE_TTL + 1, T0 + 1}}
    \cup {[kind |-> "record", data |-> "P1", timestamp |-> T0 - 1, version |-> v]
            : v \in {CACHE_VERSION - 1, CACHE_VERSION + 1}}
    \cup {[kind |-> "record", data |-> NullData, timestamp |-> T0 - 1, version |-> CACHE_VERSION]}

\* the cache test with the previous release's version number
CacheHit_OldVersion(item, t) ==
    /\ item.kind = "record"
    /\ item.version = CACHE_VERSION - 1
    /\ t - item.timestamp < CACHE_TTL

\* the cache test with <= in place of <
CacheHit_Inclusive(item, t) ==
    /\ item.kind \in {"record", "legacy"}
    /\ item.kind = "record" /\ item.version = CACHE_VERSION
    /\ t - item.timestamp <= CACHE_TTL

\* lines 84-90: cached is truthy, parses, has the version and is younger than
\* the TTL (JSON.parse throws on "unparsable"; parsed.version throws on null;
\* a legacy record's version is undefined)
CacheHit(item, t) ==
    /\ item.kind \in {"record", "legacy"}
    /\ item.kind = "record" /\ item.version = CACHE_VERSION
    /\ t - item.timestamp < CACHE_TTL

\* fetchData goes on to the fetch after a cache hit
AfterCacheHit_FallThrough == "fetching"

\* lines 95-96: clearTimeout(timeoutId); return
AfterCacheHit == "settled"

WInit ==
    /\ cache \in CacheItems
    /\ now = T0
    /\ ticks = 0
    /\ wlife = [w \in Widgets |-> "new"]
    /\ wpc = [w \in Widgets |-> "idle"]
    /\ wTimer = [w \in Widgets |-> FALSE]
    /\ wAborted = [w \in Widgets |-> "no"]
    /\ wStart = [w \in Widgets |-> 0]
    /\ wStatus = [w \in Widgets |-> 0]
    /\ status = [w \in Widgets |-> "loading"]
    /\ data = [w \in Widgets |-> NullData]
    /\ error = [w \in Widgets |-> NullData]
    /\ seen = [w \in Widgets |-> NoItem]
    /\ fetched = [w \in Widgets |-> FALSE]
    /\ dataSource = [w \in Widgets |-> "none"]
    /\ wResult = [w \in Widgets |-> NoResult]
    /\ wStored = [w \in Widgets |-> NoItem]
    /\ lastWriter = 0
    /\ together = FALSE

\* the browser clock advances
WTick(step) ==
    /\ ticks < MaxTicks
    /\ ticks' = ticks + 1
    /\ now' = now + step
    /\ UNCHANGED <<cache, wlife, wpc, wTimer, wAborted, wStart, wStatus,
                   status, data, error, seen, fetched, dataSource>>
    /\ UNCHANGED <<wResult, wStored, lastWriter, together>>
    /\ UNCHANGED pvars

\* a cache hit that writes the record back with the current time
Mount_RefreshTimestamp(w) ==
    /\ wlife[w] = "new"
    /\ wlife' = [wlife EXCEPT ![w] = "mounted"]
    /\ wStart' = [wStart EXCEPT ![w] = now]
    /\ seen' = [seen EXCEPT ![w] = cache]
    /\ IF CacheHit(cache, now)
       THEN /\ data' = [data EXCEPT ![w] = cache.data]
            /\ status' = [status EXCEPT ![w] = "success"]
            /\ dataSource' = [dataSource EXCEPT ![w] = "cache"]
            /\ wTimer' = [wTimer EXCEPT ![w] = FALSE]
            /\ wpc' = [wpc EXCEPT ![w] = AfterCacheHit]
            /\ fetched' = [fetched EXCEPT ![w] = (AfterCacheHit = "fetching")]
            /\ cache' = [cache EXCEPT !.timestamp = now]
       ELSE /\ wTimer' = [wTimer EXCEPT ![w] = TRUE]
            /\ wpc' = [wpc EXCEPT ![w] = "fetching"]
            /\ fetched' = [fetched EXCEPT ![w] = TRUE]
            /\ UNCHANGED <<data, status, dataSource, cache>>
    /\ UNCHANGED <<now, ticks, wAborted, wStatus, error>>
    /\ together' = (together \/ \E v \in Widgets \ {w} :
                                    wpc[v] \in {"fetching", "reading", "readingError"})
    /\ UNCHANGED <<wResult, wStored, lastWriter>>
    /\ UNCHANGED pvars

\* lines 76-104, 143: the effect runs; fetchData runs up to its first await
Mount(w) ==
    /\ wlife[w] = "new"
    /\ wlife' = [wlife EXCEPT ![w] = "mounted"]
    /\ wStart' = [wStart EXCEPT ![w] = now]
    /\ seen' = [seen EXCEPT ![w] = cache]
    /\ IF CacheHit(cache, now)
       THEN /\ data' = [data EXCEPT ![w] = cache.data]
            /\ status' = [status EXCEPT ![w] = "success"]
            /\ dataSource' = [dataSource EXCEPT ![w] = "cache"]
            /\ wTimer' = [wTimer EXCEPT ![w] = FALSE]
            /\ wpc' = [wpc EXCEPT ![w] = AfterCacheHit]
            /\ fetched' = [fetched EXCEPT ![w] = (AfterCacheHit = "fetching")]
       ELSE /\ wTimer' = [wTimer EXCEPT ![w] = TRUE]
            /\ wpc' = [wpc EXCEPT ![w] = "fetching"]
            /\ fetched' = [fetched EXCEPT ![w] = TRUE]
            /\ UNCHANGED <<data, status, dataSource>>
    /\ UNCHANGED <<cache, now, ticks, wAborted, wStatus, error>>
    /\ together' = (together \/ \E v \in Widgets \ {w} :
                                    wpc[v] \in {"fetching", "reading", "readingError"})
    /\ UNCHANGED <<wResult, wStored, lastWriter>>
    /\ UNCHANGED pvars

\* line 79: the timer's callback, controller.abort()
WTimerFire(w) ==
    /\ wTimer[w]
    /\ now - wStart[w] >= FETCH_TIMEOUT
    /\ wTimer' = [wTimer EXCEPT ![w] = FALSE]
    /\ wAborted' = [wAborted EXCEPT ![w] = IF wAborted[w] = "no" THEN "timer" ELSE wAborted[w]]
    /\ UNCHANGED <<cache, now, ticks, wlife, wpc, wStart, wStatus,
                   status, data, error, seen, fetched, dataSource>>
    /\ UNCHANGED <<wResult, wStored, lastWriter, together>>
    /\ UNCHANGED pvars

\* lines 145-149: the effect's cleanup
Unmount(w) ==
    /\ wlife[w] = "mounted"
    /\ wlife' = [wlife EXCEPT ![w] = "unmounted"]
    /\ wTimer' = [wTimer EXCEPT ![w] = FALSE]
    /\ wAborted' = [wAborted EXCEPT ![w] = IF wAborted[w] = "no" THEN "cleanup" ELSE wAborted[w]]
    /\ UNCHANGED <<cache, now, ticks, wpc, wStart, wStatus,
                   status, data, error, seen, fetched, dataSource>>
    /\ UNCHANGED <<wResult, wStored, lastWriter, together>>
    /\ UNCHANGED pvars

\* the catch block without the isMounted test
WCatch_NoMountedTest(w, name, message) ==
    /\ wTimer' = [wTimer EXCEPT ![w] = FALSE]
    /\ wpc' = [wpc EXCEPT ![w] = "settled"]
    /\ error' = [error EXCEPT ![w] =
                    IF name = "AbortError"
                    THEN "Request timed out. Please try again."
                    ELSE message]
    /\ status' = [status EXCEPT ![w] = "error"]

\* lines 130-140: the catch block with the thrown error's name and message
WCatch(w, name, message) ==
    /\ wTimer' = [wTimer EXCEPT ![w] = FALSE]
    /\ wpc' = [wpc EXCEPT ![w] = "settled"]
    /\ IF wlife[w] = "mounted"
       THEN /\ error' = [error EXCEPT ![w] =
                            IF name = "AbortError"
                            THEN "Request timed out. Please try again."
                            ELSE message]
            /\ status' = [status EXCEPT ![w] = "error"]
       ELSE UNCHANGED <<error, status>>

\* lines 104-107: the fetch resolves with the Proxy's status line
WFetchResolve(w, st) ==
    /\ wpc[w] = "fetching"
    /\ wAborted[w] = "no"
    /\ wTimer' = [wTimer EXCEPT ![w] = FALSE]
    /\ wStatus' = [wStatus EXCEPT ![w] = st]
    /\ wpc' = [wpc EXCEPT ![w] = IF Ok(st) THEN "reading" ELSE "readingError"]
    /\ UNCHANGED <<cache, now, ticks, wlife, wAborted, wStart,
                   status, data, error, seen, fetched, dataSource>>
    /\ UNCHANGED <<wResult, wStored, lastWriter, together>>
    /\ UNCHANGED pvars

\* lines 104, 130-140: the fetch rejects, aborted or failed in transport
WFetchReject(w) ==
    /\ wpc[w] = "fetching"
    /\ IF wAborted[w] # "no"
       THEN WCatch(w, "AbortError", "The user aborted a request.")
       ELSE WCatch(w, "TypeError", "Failed to fetch")
    /\ UNCHANGED <<cache, now, ticks, wlife, wAborted, wStart, wStatus,
                   data, seen, fetched, dataSource>>
    /\ UNCHANGED <<wResult, wStored, lastWriter, together>>
    /\ UNCHANGED pvars

\* errorData.error || `Failed to fetch: ${response.status}`
ErrorMessage(bodyError, st) ==
    IF bodyError # "" THEN bodyError ELSE "Failed to fetch: " \o ToString(st)

\* lines 108-109: the body of a non-success response settles; bodyKind is
\* "error" ({ error: text }), "empty" (no or empty error field), "unparsable"
\* (json() rejects and .catch gives {}) or "null" (errorData.error throws)
WErrorBodySettle(w, bodyKind, text) ==
    /\ wpc[w] = "readingError"
    /\ CASE bodyKind = "null" /\ wAborted[w] = "no" ->
              WCatch(w, "TypeError", "Cannot read properties of null (reading 'error')")
         [] bodyKind = "error" /\ wAborted[w] = "no" ->
              WCatch(w, "Error", ErrorMessage(text, wStatus[w]))
         [] OTHER ->
              WCatch(w, "Error", ErrorMessage("", wStatus[w]))
    /\ UNCHANGED <<cache, now, ticks, wlife, wAborted, wStart, wStatus,
                   data, seen, fetched, dataSource>>
    /\ UNCHANGED <<wResult, wStored, lastWriter, together>>
    /\ UNCHANGED pvars

\* a write that replaces the data of an existing record and keeps the rest
WBodyResolve_PartialWrite(w, result, writeOk) ==
    /\ wpc[w] = "reading"
    /\ wpc' = [wpc EXCEPT ![w] = "settled"]
    /\ wResult' = [wResult EXCEPT ![w] = result]
    /\ IF wlife[w] = "mounted"
       THEN /\ data' = [data EXCEPT ![w] = result]
            /\ status' = [status EXCEPT ![w] = "success"]
            /\ dataSource' = [dataSource EXCEPT ![w] = "fetch"]
            /\ IF writeOk
               THEN LET cacheData == [kind |-> "record", data |-> result,
                                      timestamp |-> now, version |-> CACHE_VERSION]
                    IN  /\ cache' = IF cache.kind = "record"
                                    THEN [cacheData EXCEPT !.timestamp = cache.timestamp]
                                    ELSE cacheData
                        /\ wStored' = [wStored EXCEPT ![w] = cacheData]
                        /\ lastWriter' = w
               ELSE UNCHANGED <<cache, wStored, lastWriter>>
       ELSE UNCHANGED <<data, status, dataSource, cache, wStored, lastWriter>>
    /\ UNCHANGED <<now, ticks, wlife, wTimer, wAborted, wStart, wStatus,
                   error, seen, fetched, together>>
    /\ UNCHANGED pvars

\* the write with the time of the mount in place of the current time
WBodyResolve_MountTimestamp(w, result, writeOk) ==
    /\ wpc[w] = "reading"
    /\ wpc' = [wpc EXCEPT ![w] = "settled"]
    /\ wResult' = [wResult EXCEPT ![w] = result]
    /\ IF wlife[w] = "mounted"
       THEN /\ data' = [data EXCEPT ![w] = result]
            /\ status' = [status EXCEPT ![w] = "success"]
            /\ dataSource' = [dataSource EXCEPT ![w] = "fetch"]
            /\ IF writeOk
               THEN LET cacheData == [kind |-> "record", data |-> result,
                                      timestamp |-> wStart[w], version |-> CACHE_VERSION]
                    IN  /\ cache' = cacheData
                        /\ wStored' = [wStored EXCEPT ![w] = cacheData]
                        /\ lastWriter' = w
               ELSE UNCHANGED <<cache, wStored, lastWriter>>
       ELSE UNCHANGED <<data, status, dataSource, cache, wStored, lastWriter>>
    /\ UNCHANGED <<now, ticks, wlife, wTimer, wAborted, wStart, wStatus,
                   error, seen, fetched, together>>
    /\ UNCHANGED pvars

\* lines 112-129: the body of a 2xx response parses to result; setItem may
\* throw (quota, storage disabled), which the code swallows
WBodyResolve(w, result, writeOk) ==
    /\ wpc[w] = "reading"
    /\ wpc' = [wpc EXCEPT ![w] = "settled"]
    /\ wResult' = [wResult EXCEPT ![w] = result]
    /\ IF wlife[w] = "mounted"
       THEN /\ data' = [data EXCEPT ![w] = result]
            /\ status' = [status EXCEPT ![w] = "success"]
            /\ dataSource' = [dataSource EXCEPT ![w] = "fetch"]
            /\ IF writeOk
               THEN LET cacheData == [kind |-> "record", data |-> result,
                                      timestamp |-> now, version |-> CACHE_VERSION]
                    IN  /\ cache' = cacheData
                        /\ wStored' = [wStored EXCEPT ![w] = cacheData]
                        /\ lastWriter' = w
               ELSE UNCHANGED <<cache, wStored, lastWriter>>
       ELSE UNCHANGED <<data, status, dataSource, cache, wStored, lastWriter>>
    /\ UNCHANGED <<now, ticks, wlife, wTimer, wAborted, wStart, wStatus,
                   error, seen, fetched, together>>
    /\ UNCHANGED pvars

\* lines 112, 130-140: response.json() rejects: the body is no JSON, or the
\* read was aborted by the cleanup
WBodyReject(w) ==
    /\ wpc[w] = "reading"
    /\ IF wAborted[w] # "no"
       THEN WCatch(w, "AbortError", "The user aborted a request.")
       ELSE WCatch(w, "SyntaxError", "Unexpected token < in JSON at position 0")
    /\ UNCHANGED <<cache, now, ticks, wlife, wAborted, wStart, wStatus,
                   data, seen, fetched, dataSource>>
    /\ UNCHANGED <<wResult, wStored, lastWriter, together>>
    /\ UNCHANGED pvars

WidgetNext ==
    \/ \E step \in ClockSteps : WTick(step)
    \/ \E w \in Widgets : Mount(w)
    \/ \E w \in Widgets : WTimerFire(w)
    \/ \E w \in Widgets : Unmount(w)
    \/ \E w \in Widgets, st \in WidgetStatuses : WFetchResolve(w, st)
    \/ \E w \in Widgets : WFetchReject(w)
    \/ \E w \in Widgets, k \in {"error", "empty", "unparsable", "null"} :
          WErrorBodySettle(w, k, "Request timed out")
    \/ \E w \in Widgets, result \in Payloads \cup {NullData}, writeOk \in BOOLEAN :
          WBodyResolve(w, result, writeOk)
    \/ \E w \in Widgets : WBodyReject(w)

\* line 79: time passes until the pending timer of Widget w is due
WTimerDue(w) ==
    /\ wTimer[w]
    /\ now - wStart[w] < FETCH_TIMEOUT
    /\ now' = wStart[w] + FETCH_TIMEOUT
    /\ UNCHANGED <<cache, ticks, wlife, wpc, wTimer, wAborted, wStart, wStatus,
                   status, data, error, seen, fetched, dataSource>>
    /\ UNCHANGED <<wResult, wStored, lastWriter, together>>
    /\ UNCHANGED pvars

\* the instance that is followed to the end of its life
LiveWidgets == {1}

\* one Widget on the page, the clock running on to every deadline
WidgetLiveNext ==
    \/ \E step \in ClockSteps : WTick(step)
    \/ \E w \in LiveWidgets : Mount(w)
    \/ \E w \in LiveWidgets : WTimerDue(w)
    \/ \E w \in LiveWidgets : WTimerFire(w)
    \/ \E w \in LiveWidgets : Unmount(w)
    \/ \E w \in LiveWidgets, st \in WidgetStatuses : WFetchResolve(w, st)
    \/ \E w \in LiveWidgets : WFetchReject(w)
    \/ \E w \in LiveWidgets, k \in {"error", "empty", "unparsable", "null"} :
          WErrorBodySettle(w, k, "Request timed out")
    \/ \E w \in LiveWidgets, result \in Payloads \cup {NullData}, writeOk \in BOOLEAN :
          WBodyResolve(w, result, writeOk)
    \/ \E w \in LiveWidgets : WBodyReject(w)

\* what the runtime guarantees: the effect runs after the first render, a
\* pending timer becomes due and its callback runs, and an aborted fetch()
\* or body read rejects.  Nothing makes the Proxy answer or finish a body.
WidgetFairness ==
    \A w \in LiveWidgets :
        /\ WF_vars(Mount(w))
        /\ WF_vars(WTimerDue(w))
        /\ WF_vars(WTimerFire(w))
        /\ WF_vars(wAborted[w] # "no" /\ WFetchReject(w))
        /\ WF_vars(wAborted[w] # "no" /\ WBodyReject(w))
        /\ WF_vars(wAborted[w] # "no" /\ WErrorBodySettle(w, "unparsable", ""))

\* the bodies that may arrive now: none unless response.json() is pending
ArrivingBodies == IF ppc = "reading" THEN Bodies ELSE {}

\* the Proxy serving a request, no page open yet
InitProxy ==
    /\ PInit
    /\ WInit
    /\ cache = NoItem

\* the page with its Widgets, the Proxy idle
InitWidget ==
    /\ PInit
    /\ WInit

ProxyNext ==
    \/ ProxyGET
    \/ ProxyTick
    \/ ProxyTimerFire
    \/ \E code \in UpstreamStatuses : ProxyFetchResolve(code)
    \/ ProxyFetchReject
    \/ \E b \in ArrivingBodies, todayDay \in TodayChoices, tz \in TimeZones :
          ProxyJsonSettle(b, todayDay, tz)

SpecProxy == InitProxy /\ [][ProxyNext]_vars

SpecWidget == InitWidget /\ [][WidgetNext]_vars

SpecWidgetLive == InitWidget /\ [][WidgetLiveNext]_vars /\ WidgetFairness

-----------------------------------------------------------------------------
(* Properties of the Activity Proxy *)

\* the calendar date of "YYYY-MM-DD" as a number, read field by field
DateKey(s) == ParseInt(s, 1, 4) * 10000 + ParseInt(s, 6, 7) * 100 + ParseInt(s, 9, 10)

\* the calendar date of the server clock, without going through a string
TodayKey == LET c == Civil(today) IN c.y * 10000 + c.m * 100 + c.d

Min(a, b) == IF a <= b THEN a ELSE b

Occurrences(s, e) == Cardinality({i \in 1..Len(s) : s[i] = e})

Range(s) == {s[i] : i \in 1..Len(s)}

RECURSIVE WeightedCount(_, _)
\* the sum of count over s, counted value by value
WeightedCount(s, c) ==
    IF c = 0 THEN 0
    ELSE c * Cardinality({i \in 1..Len(s) : s[i].count = c}) + WeightedCount(s, c - 1)

RECURSIVE MemberSum(_)
MemberSum(m) == IF m = <<>> THEN 0 ELSE Head(m).v + MemberSum(Tail(m))

Returned200 == ppc = "done" /\ presp.status = 200

\* the upstream body is the contract's { total: mapping, contributions: sequence }
ValidUpstream ==
    upBody.kind = "object" /\ upBody.contributions.t = "arr" /\ upBody.total.t = "obj"

\* the upstream entries dated on or before today, in upstream order
Eligible ==
    SelectSeq(upBody.contributions.a, LAMBDA c : DateKey(c.date) <= TodayKey)

InvalidStructureBody == [error |-> "Invalid data structure from GitHub API"]

\* C1: a 2xx upstream response whose parsed body has contributions absent or
\* not a sequence, or total absent or not a mapping, is answered with 502 and
\* { error: "Invalid data structure from GitHub API" }
C1_MalformedIs502 ==
    (/\ ppc = "done"
     /\ Ok(upStatus)
     /\ upBody.kind = "object"
     /\ (upBody.contributions.t # "arr" \/ upBody.total.t # "obj"))
    => (presp.status = 502 /\ presp.body = InvalidStructureBody)

\* C2: in a 200 response no returned entry is dated after today,
\* and no entry dated on or before today is removed by the filter: the
\* returned entries are as many as the window allows among them
C2_NoFutureEntries ==
    Returned200
    => LET kept == presp.body.contributions
       IN  /\ \A i \in 1..Len(kept) : DateKey(kept[i].date) <= TodayKey
           /\ Len(kept) = Min(WindowSize, Len(Eligible))

C2_Witness ==
    /\ Returned200 /\ ValidUpstream
    /\ \E i \in 1..Len(upBody.contributions.a) :
          DateKey(upBody.contributions.a[i].date) > TodayKey
    /\ \E i \in 1..Len(upBody.contributions.a) :
          DateKey(upBody.contributions.a[i].date) = TodayKey
    /\ Len(presp.body.contributions) > 0

\* C3: in a 200 response the returned contributions are sorted
\* ascending by date, at most 365, all the non-future entries when these are
\* 365 or fewer and otherwise the 365 of them with the latest dates
C3_SortedWindow ==
    Returned200
    => LET kept == presp.body.contributions
           el == Eligible
       IN  /\ Len(kept) <= WindowSize
           /\ Len(kept) = Min(WindowSize, Len(el))
           /\ \A i \in 1..(Len(kept) - 1) :
                 DateKey(kept[i].date) <= DateKey(kept[i + 1].date)
           /\ Range(kept) \subseteq Range(el)
           /\ \A e \in Range(el) :
                 LET k == Occurrences(kept, e)
                     n == Occurrences(el, e)
                 IN  /\ k <= n
                     /\ Len(el) <= WindowSize => k = n
                     /\ (Len(kept) > 0 /\ DateKey(e.date) > DateKey(kept[1].date)) => k = n
                     /\ (Len(kept) > 0 /\ DateKey(e.date) < DateKey(kept[1].date)) => k = 0

\* more than 365 non-future entries arrived newest first
C3_Witness ==
    /\ Returned200 /\ ValidUpstream
    /\ Len(Eligible) > WindowSize
    /\ DateKey(Eligible[1].date) > DateKey(Eligible[2].date)
    /\ Len(presp.body.contributions) = WindowSize

\* C4: in a 200 response lastYearTotal is the sum of count over the returned
\* contributions
C4_LastYearTotal ==
    Returned200
    => presp.body.lastYearTotal = WeightedCount(presp.body.contributions, MaxCount)

\* a future entry with a positive count was dropped
C4_Witness ==
    /\ Returned200 /\ ValidUpstream
    /\ \E i \in 1..Len(upBody.contributions.a) :
          /\ DateKey(upBody.contributions.a[i].date) > TodayKey
          /\ upBody.contributions.a[i].count > 0
    /\ presp.body.lastYearTotal > 0

C6_TimeoutIs504 ==
    pAborted =>
        /\ pElapsed >= FETCH_TIMEOUT
        /\ upStatus = 0
        /\ ppc \in {"fetching", "done"}
        /\ ppc = "done" => presp = ErrorResponse(504, "Request timed out")

C6_Witness == pAborted /\ ppc = "done" /\ presp.status = 504

CompletePayload(body) ==
    /\ DOMAIN body = {"contributions", "lastYearTotal", "allTimeTotal", "yearRange"}
    /\ body.allTimeTotal.t = "num"
    /\ Len(body.contributions) <= WindowSize

\* C7: every failure is answered with an error string and the status of its
\* class: the upstream's status, 502 for a contract violation, 504 for a
\* timeout, 500 for another thrown error; 200 only with a complete payload
C7_FailureClasses ==
    ppc = "done" =>
        /\ presp.status # 200 => DOMAIN presp.body = {"error"}
        /\ (upStatus # 0 /\ ~Ok(upStatus)) => presp.status = upStatus
        /\ (Ok(upStatus) /\ upBody.kind = "object" /\ ~ValidUpstream) => presp.status = 502
        /\ pAborted => presp.status = 504
        /\ (upStatus = 0 /\ ~pAborted) => presp.status = 500
        /\ (Ok(upStatus) /\ upBody.kind \in {"unparsable", "null"}) => presp.status = 500
        /\ presp.status = 200 => (ValidUpstream /\ CompletePayload(presp.body))

-----------------------------------------------------------------------------
(* Properties of the Activity Widget *)

OneHour == 60 * 60 * 1000

\* Widget w has run its effect and found a record of the current version
\* younger than one hour
FoundFresh(w) ==
    /\ wlife[w] # "new"
    /\ seen[w].kind = "record"
    /\ seen[w].version = CACHE_VERSION
    /\ wStart[w] - seen[w].timestamp < OneHour

\* Widget w has run its effect and found an item that is no JSON, a record
\* of another version (or of none), or a record one hour old or older
FoundStale(w) ==
    /\ wlife[w] # "new"
    /\ \/ seen[w].kind \in {"unparsable", "legacy"}
       \/ /\ seen[w].kind = "record"
          /\ (seen[w].version # CACHE_VERSION \/ wStart[w] - seen[w].timestamp >= OneHour)

\* C8: a Widget that finds on mount a cached record of the current version
\* and younger than 1 hour is in success with the cached data and never
\* calls fetch
C8_FreshCacheNoFetch ==
    \A w \in Widgets :
        FoundFresh(w) =>
            /\ status[w] = "success"
            /\ data[w] = seen[w].data
            /\ ~fetched[w]
            /\ wpc[w] = "settled"

\* a Widget served from the record that the other instance's fetch wrote
C8_Witness ==
    \E w \in Widgets :
        /\ FoundFresh(w)
        /\ seen[w].timestamp >= T0 + FETCH_TIMEOUT
        /\ status[w] = "success"
        /\ ~fetched[w]

\* C9: a Widget that finds on mount a cached item that is too old, of another
\* version or no JSON never displays it, is not in error before its fetch
\* has settled, and calls fetch
C9_StaleCacheIgnored ==
    \A w \in Widgets :
        FoundStale(w) =>
            /\ fetched[w]
            /\ dataSource[w] # "cache"
            /\ wpc[w] # "settled" => status[w] = "loading"
            /\ status[w] = "success" => dataSource[w] = "fetch"

\* a record exactly one hour old was found and the fetched payload is shown
C9_Witness ==
    \E w \in Widgets :
        /\ FoundStale(w)
        /\ seen[w].kind = "record"
        /\ seen[w].version = CACHE_VERSION
        /\ wStart[w] - seen[w].timestamp = OneHour
        /\ status[w] = "success"
        /\ dataSource[w] = "fetch"

\* C10: every Widget starts in loading and its status changes at most once,
\* to success or to error, whatever happens afterwards
C10_StatusChangesOnce ==
    /\ \A w \in Widgets : status[w] = "loading"
    /\ [][\A w \in Widgets :
            /\ status'[w] \in {"loading", "success", "error"}
            /\ status[w] # "loading" => status'[w] = status[w]]_vars

\* after success came the cleanup's abort; after error another tick of the clock
C10_Witness ==
    /\ \E w \in Widgets : status[w] = "success" /\ wAborted[w] = "cleanup"
    /\ \E w \in Widgets : status[w] = "error" /\ wAborted[w] = "timer" /\ now - wStart[w] > FETCH_TIMEOUT

(***************************************************************************)
(* Unmounting                                                              *)
(***************************************************************************)

\* C11: the cleanup aborts the request of a Widget that unmounts, and from
\* the unmount on no step changes that Widget's data, status or error,
\* whether the fetch resolves, rejects, its body parses or fails to parse,
\* or the timer had fired before
C11_NoUpdateAfterUnmount ==
    [][\A w \in Widgets :
          /\ wlife'[w] = "unmounted" => (wAborted'[w] # "no" /\ ~wTimer'[w])
          /\ wlife[w] = "unmounted" =>
                /\ data'[w] = data[w]
                /\ status'[w] = status[w]
                /\ error'[w] = error[w]]_vars

\* a Widget unmounted while its request was pending; the request settled
\* afterwards and the Widget is still in loading with nothing set
C11_Witness ==
    \E w \in Widgets :
        /\ wlife[w] = "unmounted"
        /\ fetched[w]
        /\ wpc[w] = "settled"
        /\ wAborted[w] = "cleanup"
        /\ status[w] = "loading"
        /\ data[w] = NullData
        /\ error[w] = NullData

(***************************************************************************)
(* What the page shows                                                     *)
(***************************************************************************)

\* lines 194, 243: the statistics and the calendar are rendered
RendersData(w) == status[w] = "success" /\ data[w] # NullData

\* line 226: the error block is rendered with a message in it
RendersError(w) == status[w] = "error" /\ error[w] # NullData /\ error[w] # ""

\* C12: a Widget that is never unmounted eventually leaves loading and from
\* then on shows its data or an error message, whatever the cache holds and
\* whether the Proxy answers, answers with a failure, stalls or is unreachable
C12_NeverBlank ==
    \A w \in LiveWidgets :
        [](wlife[w] # "unmounted") => <>[](RendersData(w) \/ RendersError(w))

(***************************************************************************)
(* The year range                                                          *)
(***************************************************************************)

\* the calendar year written in an entry's date
EntryYear(e) == ParseInt(e.date, 1, 4)

\* C13: in every 200 response yearRange is the year of the first returned
\* entry when the first and the last returned entry are of the same calendar
\* year, and "startYear - endYear" of the first and the last entry otherwise
C13_YearRange ==
    Returned200 =>
        LET cs == presp.body.contributions
        IN  /\ Len(cs) > 0
            /\ LET startYear == EntryYear(cs[1])
                    endYear == EntryYear(cs[Len(cs)])
                IN  presp.body.yearRange =
                        IF startYear = endYear
                        THEN ToString(startYear)
                        ELSE ToString(startYear) \o " - " \o ToString(endYear)

(***************************************************************************)
(* The successful fetch                                                    *)
(***************************************************************************)

\* this step is line 112 of Widget w completing: the 2xx body has parsed
BodyParsed(w) == wResult[w] = NoResult /\ wResult'[w] # NoResult

\* the record a write of payload r at time t leaves
CachedRecord(r, t) ==
    [kind |-> "record", data |-> r, timestamp |-> t, version |-> CACHE_VERSION]

\* C14 as stated: every successful fetch (a 2xx response whose body parses)
\* stores the payload as data, moves to success and leaves the cache holding
\* the payload with the current time and CACHE_VERSION
C14_EveryFetchStores ==
    [][\A w \in Widgets :
          BodyParsed(w) =>
              /\ data'[w] = wResult'[w]
              /\ status'[w] = "success"
              /\ cache' = CachedRecord(wResult'[w], now)]_vars

\* C14: a successful fetch that completes while the Widget is mounted stores
\* the payload as data and moves to success; unless setItem throws it leaves
\* the cache holding the payload with the current time and CACHE_VERSION,
\* and otherwise leaves the cache as it was; a Widget that mounts less than
\* one hour after the timestamp of a record so written, while the cache
\* holds it, shows that record's data without fetching
C14_MountedFetchStores ==
    [][\A w \in Widgets :
          /\ (BodyParsed(w) /\ wlife[w] = "mounted") =>
                /\ data'[w] = wResult'[w]
                /\ status'[w] = "success"
                /\ \/ /\ wStored'[w] = CachedRecord(wResult'[w], now)
                      /\ cache' = wStored'[w]
                   \/ /\ wStored'[w] = NoItem
                      /\ cache' = cache
          /\ (/\ wlife[w] = "new" /\ wlife'[w] = "mounted"
              /\ \E v \in Widgets : wStored[v] # NoItem /\ cache = wStored[v]
              /\ now - cache.timestamp < OneHour) =>
                /\ status'[w] = "success"
                /\ data'[w] = cache.data
                /\ ~fetched'[w]]_vars

\* a fetch stored its payload some time after its mount, and the other
\* Widget, mounted within the hour, shows the stored payload
C14_Witness ==
    \E w, v \in Widgets :
        /\ status[w] = "success"
        /\ data[w] = wResult[w]
        /\ wStored[w] = CachedRecord(wResult[w], wStored[w].timestamp)
        /\ wStored[w].timestamp > wStart[w]
        /\ seen[v] = wStored[w]
        /\ wStart[v] > wStored[w].timestamp
        /\ dataSource[v] = "cache"
        /\ data[v] = wResult[w]

(***************************************************************************)
(* The failed fetch                                                        *)
(***************************************************************************)

TimedOutMessage == "Request timed out. Please try again."

\* the fetch of Widget w failed while it was mounted: fetchData ended
\* without a cache hit and without a parsed 2xx body
FailedMounted(w) ==
    /\ wlife[w] = "mounted"
    /\ wpc[w] = "settled"
    /\ fetched[w]
    /\ wResult[w] = NoResult

\* the message is the timed-out one exactly when the timer aborted the fetch
TimeoutIffTimer(w) == error[w] = TimedOutMessage <=> wAborted[w] = "timer"

\* after a non-success status the message is the error field that a body
\* of the model carries, or the generic one with the status code
StatusMessage(w) ==
    (wStatus[w] # 0 /\ ~Ok(wStatus[w])) =>
        error[w] \in {"Request timed out", "Failed to fetch: " \o ToString(wStatus[w])}

\* after any other failure the message is the text of what was thrown
ThrownMessage(w) ==
    /\ (wStatus[w] = 0 /\ wAborted[w] = "no") => error[w] = "Failed to fetch"
    /\ Ok(wStatus[w]) => error[w] = "Unexpected token < in JSON at position 0"

\* C15: a fetch that fails while the Widget is mounted ends in error, with
\* the timed-out message if and only if the 10-second timer aborted it,
\* after a non-success status with the error field of the body or else the
\* generic message with the status code, and after any other thrown error
\* with its message text
C15_ErrorByCause ==
    \A w \in Widgets :
        FailedMounted(w) =>
            /\ status[w] = "error"
            /\ TimeoutIffTimer(w)
            /\ StatusMessage(w)
            /\ ThrownMessage(w)

(***************************************************************************)
(* Two instances and one cache                                             *)
(***************************************************************************)

\* both instances have run fetchData to its end and neither was unmounted
BothSettled == \A w \in Widgets : wpc[w] = "settled" /\ wlife[w] = "mounted"

\* what an instance shows when it is the only one on the page, finds the
\* item found in the cache and receives the responses that w received
AloneStatus(w, found) ==
    IF CacheHit(found, wStart[w]) \/ wResult[w] # NoResult THEN "success" ELSE "error"

AloneData(w, found) ==
    IF CacheHit(found, wStart[w]) THEN found.data
    ELSE IF wResult[w] # NoResult THEN wResult[w] ELSE NullData

\* instance w ended as it would have ended alone
EndsAsAlone(w, found) ==
    /\ status[w] = AloneStatus(w, found)
    /\ data[w] = AloneData(w, found)
    /\ status[w] = "error" <=> error[w] # NullData

\* the cache holds what the instance that wrote last stored, whole
LastWriteWins ==
    /\ cache = wStored[lastWriter]
    /\ cache = CachedRecord(wResult[lastWriter], cache.timestamp)
    /\ cache.timestamp >= wStart[lastWriter]

\* C16 as stated: after two instances that ran concurrently have settled,
\* the cache holds one whole record of the current version, the one stored
\* by the instance that wrote last, and each instance ended as it would
\* have ended alone
C16_ConcurrentSafe ==
    (together /\ BothSettled) =>
        /\ lastWriter \in Widgets
        /\ LastWriteWins
        /\ \A w \in Widgets : EndsAsAlone(w, seen[w])

\* C16: after two instances that ran concurrently have settled, both had
\* found the same item in the cache on mount; if any of them wrote, the
\* cache holds one whole record of the current version, the one stored by
\* the instance that wrote last; if none wrote (both fetches failed, or
\* setItem threw), the cache holds the item they found; and each instance
\* ended as it would have ended alone with that item in the cache
C16_LastWriteWins ==
    (together /\ BothSettled) =>
        /\ \A w, v \in Widgets : seen[w] = seen[v]
        /\ IF lastWriter \in Widgets
           THEN LastWriteWins
           ELSE \A w \in Widgets : cache = seen[w]
        /\ \A w, v \in Widgets : EndsAsAlone(w, seen[v])

\* both instances fetched at once and stored different payloads at
\* different times; the cache holds the later one
C16_Witness ==
    /\ together
    /\ BothSettled
    /\ \A w \in Widgets : wStored[w] # NoItem
    /\ \E w, v \in Widgets :
          /\ wStored[w].timestamp < wStored[v].timestamp
          /\ wStored[w].data # wStored[v].data
          /\ cache = wStored[v]

(***************************************************************************)
(* Who writes the cache                                                    *)
(***************************************************************************)

\* C17: the cache changes only in the step in which a 2xx body has parsed
\* for a Widget that is mounted, and then to the record of that payload at
\* the current time; a cache hit, a non-success response, a timeout, a
\* transport error and a body that parses after the unmount leave it as it
\* is; and the data a Widget shows from the cache come from a record
\* stamped less than one hour before that Widget's mount
C17_OnlyFetchWrites ==
    /\ [](\A w \in Widgets :
            dataSource[w] = "cache" =>
                /\ seen[w].kind = "record"
                /\ data[w] = seen[w].data
                /\ wStart[w] - seen[w].timestamp < OneHour
                /\ \A v \in Widgets :
                      seen[w] = wStored[v] => seen[w].timestamp >= wStart[v])
    /\ [][cache' # cache =>
            \E w \in Widgets :
                /\ BodyParsed(w)
                /\ Ok(wStatus[w])
                /\ wlife[w] = "mounted"
                /\ status'[w] = "success"
                /\ cache' = CachedRecord(wResult'[w], now)]_vars

\* one Widget was served from the cache; the other found the same record
\* stale later, fetched, was unmounted and then received its body: the
\* record is still the one found at first
C17_Witness ==
    /\ lastWriter = 0
    /\ \E w, v \in Widgets :
          /\ dataSource[w] = "cache"
          /\ cache = seen[w]
          /\ wStart[v] > wStart[w]
          /\ fetched[v]
          /\ wpc[v] = "settled"
          /\ wlife[v] = "unmounted"
          /\ wResult[v] # NoResult
          /\ status[v] = "loading"

====
